---- MODULE Spec2Model ----
(***************************************************************************)
(* The Parser of src/src/Parser.ts as a state machine.                     *)
(*                                                                         *)
(* The Parser is driven by the Tokenizer, which calls its on... methods   *)
(* (the lexical events), and by its user, who calls reset() and end().     *)
(* Each action below is one such call, translated from the method's code;  *)
(* the calls a method makes on other methods of the Parser are part of the *)
(* same action.  The calls the Parser makes on the Handler (this.cbs) are  *)
(* recorded, in order, in `out`.                                           *)
(***************************************************************************)
EXTENDS Integers, Sequences, FiniteSets, TLC

VARIABLES
    \* ParserOptions, fixed by the constructor (Parser.ts 221-232)
    xmlMode,               \* options.xmlMode
    recognizeSelfClosing,  \* options.recognizeSelfClosing
    recognizeCDATA,        \* options.recognizeCDATA
    lowerCaseTagNames,     \* this.lowerCaseTagNames (line 224)
    lowerCaseAttributeNames, \* this.lowerCaseAttributeNames (line 225)
    cbs,                   \* the set of Handler methods that are registered
    \* the Parser's fields (Parser.ts 204-214)
    startIndex,            \* this.startIndex
    endIndex,              \* this.endIndex: <<>> is null, <<n>> the number n
    tagname,               \* this.tagname
    attribname,            \* this.attribname
    attribvalue,           \* this.attribvalue
    attribs,               \* this.attribs: <<>> is null, <<m>> the mapping m
    stack,                 \* this.stack, bottom first
    foreignContext,        \* this.foreignContext, bottom first
    \* the Tokenizer's fields the Parser reads (updatePosition, 234-245)
    sectionStart,          \* this.tokenizer.sectionStart
    index,                 \* this.tokenizer.getAbsoluteIndex()
    \* what was last processed, and the Handler calls it made, in order
    last,                  \* [kind, name]: the call processed last
    out,                   \* the Handler calls made while processing `last`
    spans,                 \* startIndex and endIndex as each of them was made
    \* the session so far, as its user and its Handler see it
    input,                 \* the calls processed since construction/reset()
    events,                \* the Handler calls they made, in order
    prevInput,             \* `input` of the session that the last reset() ended
    prevEvents,            \* `events` of that session
    trace                  \* the two stacks after each call of the session
                           \* and the number of Handler calls made by then

config == <<xmlMode, recognizeSelfClosing, recognizeCDATA, lowerCaseTagNames,
            lowerCaseAttributeNames, cbs>>
fields == <<startIndex, endIndex, tagname, attribname, attribvalue, attribs,
            stack, foreignContext>>
tokenizer == <<sectionStart, index>>
session == <<input, events, prevInput, prevEvents, trace>>
vars == <<config, fields, tokenizer, last, out, spans, session>>

----------------------------------------------------------------------------
(* Bounds of the model. *)

\* The open-element stack is not grown beyond this depth.
MaxDepth == 3
\* The foreign-context stack is not grown beyond this depth.
MaxForeign == 2
\* A recorded session holds at most this many calls.
MaxInput == 4
\* A recorded session of balanced tags holds at most this many open tags.
MaxTags == 4

----------------------------------------------------------------------------
(* The static tables, Parser.ts 3-99. *)

formTags == {"input", "option", "optgroup", "select", "button", "datalist",
             "textarea"}

pTag == {"p"}

openImpliesClose ==
    [tr |-> {"tr", "th", "td"}, th |-> {"th"}, td |-> {"thead", "th", "td"},
     body |-> {"head", "link", "script"}, li |-> {"li"},
     p |-> pTag, h1 |-> pTag, h2 |-> pTag, h3 |-> pTag, h4 |-> pTag,
     h5 |-> pTag, h6 |-> pTag,
     select |-> formTags, input |-> formTags, output |-> formTags,
     button |-> formTags, datalist |-> formTags, textarea |-> formTags,
     option |-> {"option"}, optgroup |-> {"optgroup", "option"},
     dd |-> {"dt", "dd"}, dt |-> {"dt", "dd"},
     address |-> pTag, article |-> pTag, aside |-> pTag, blockquote |-> pTag,
     details |-> pTag, div |-> pTag, dl |-> pTag, fieldset |-> pTag,
     figcaption |-> pTag, figure |-> pTag, footer |-> pTag, form |-> pTag,
     header |-> pTag, hr |-> pTag, main |-> pTag, nav |-> pTag, ol |-> pTag,
     pre |-> pTag, section |-> pTag, table |-> pTag, ul |-> pTag,
     rt |-> {"rt", "rp"}, rp |-> {"rt", "rp"},
     tbody |-> {"thead", "tbody"}, tfoot |-> {"thead", "tbody"}]

voidElements == {"area", "base", "basefont", "br", "col", "command", "embed",
                 "frame", "hr", "img", "input", "isindex", "keygen", "link",
                 "meta", "param", "source", "track", "wbr"}

foreignContextElements == {"math", "svg"}

htmlIntegrationElements == {"mi", "mo", "mn", "ms", "mtext", "annotation-xml",
                            "foreignObject", "desc", "title"}

\* Every method of the Handler interface, Parser.ts 155-199.
HandlerMethods ==
    {"onparserinit", "onreset", "onend", "onerror", "onclosetag",
     "onopentagname", "onattribute", "onopentag", "ontext", "oncomment",
     "oncdatastart", "oncdataend", "oncommentend", "onprocessinginstruction",
     "onerbexpression", "onerbscriptlet"}

----------------------------------------------------------------------------
(* Helpers: the JavaScript operations the methods use. *)

\* String.prototype.toLowerCase on the names the model feeds in.
toLowerCase(name) ==
    CASE name = "P" -> "p"
      [] name = "ID" -> "id"
      [] name = "BR" -> "br"
      [] name = "DIV" -> "div"
      [] name = "SVG" -> "svg"
      [] OTHER -> name

\* A mutant of lastIndexOf: Array.prototype.indexOf, the first occurrence.
firstIndexOf(arr, x) ==
    LET I == {i \in 1..Len(arr) : arr[i] = x}
    IN IF I = {} THEN 0 ELSE CHOOSE i \in I : \A j \in I : i <= j

\* Array.prototype.lastIndexOf, 1-based; 0 where JavaScript gives -1.
lastIndexOf(arr, x) ==
    LET I == {i \in 1..Len(arr) : arr[i] = x}
    IN IF I = {} THEN 0 ELSE CHOOSE i \in I : \A j \in I : j <= i

\* Array.prototype.pop: popping an empty array leaves it empty.
pop(arr) == IF Len(arr) = 0 THEN arr ELSE SubSeq(arr, 1, Len(arr) - 1)

\* arr[arr.length - 1] === x; arr[-1] is undefined and equals nothing.
topIs(arr, x) == Len(arr) > 0 /\ arr[Len(arr)] = x

\* Object.prototype.hasOwnProperty.call(openImpliesClose, name)
hasOpenImpliesClose(name) == name \in DOMAIN openImpliesClose

\* The empty attribute mapping, {}.
EmptyAttribs == [a \in {} |-> ""]

\* A call of Handler method cb.
Call(cb, name, value, map) ==
    [cb |-> cb, name |-> name, value |-> value, attribs |-> map]

\* this.cbs.cb?.(...): the call is made when the method is registered; the
\* Handler can read the Parser's startIndex and endIndex (204-207) during it.
emit(s, cb, name, value, map) ==
    IF cb \in cbs
    THEN [s EXCEPT !.out = Append(@, Call(cb, name, value, map)),
                   !.spans = Append(@, [startIndex |-> s.startIndex,
                                        endIndex |-> s.endIndex])]
    ELSE s

\* The Parser's fields as one value, with the Handler calls made so far.
This ==
    [startIndex |-> startIndex, endIndex |-> endIndex, tagname |-> tagname,
     attribname |-> attribname, attribvalue |-> attribvalue,
     attribs |-> attribs, stack |-> stack, foreignContext |-> foreignContext,
     out |-> <<>>, spans |-> <<>>]

----------------------------------------------------------------------------
(* The methods of the Parser, as functions of its fields `s`. *)

\* updatePosition, Parser.ts 234-245.
updatePosition(s, initialOffset) ==
    LET start == IF s.endIndex = <<>>
                 THEN IF sectionStart <= initialOffset
                      THEN 0
                      ELSE sectionStart - initialOffset
                 ELSE s.endIndex[1] + 1
    IN [s EXCEPT !.startIndex = start, !.endIndex = <<index>>]

\* ontext, Parser.ts 248-252.
ontext(s, data) ==
    LET s1 == updatePosition(s, 1)
        s2 == [s1 EXCEPT !.endIndex = <<s1.endIndex[1] - 1>>]
    IN emit(s2, "ontext", "", data, EmptyAttribs)

\* oncomment, Parser.ts 405-409.
oncomment(s, value) ==
    LET s1 == updatePosition(s, 4)
        s2 == emit(s1, "oncomment", "", value, EmptyAttribs)
    IN emit(s2, "oncommentend", "", "", EmptyAttribs)

\* oncdata, Parser.ts 411-420.
oncdata(s, value) ==
    LET s1 == updatePosition(s, 1)
    IN IF xmlMode \/ recognizeCDATA
       THEN LET s2 == emit(s1, "oncdatastart", "", "", EmptyAttribs)
                s3 == emit(s2, "ontext", "", value, EmptyAttribs)
            IN emit(s3, "oncdataend", "", "", EmptyAttribs)
       ELSE oncomment(s1, "[CDATA[" \o value \o "]]")

\* A mutant of isVoidElement: the negation of xmlMode is lost.
isVoidElementInXml(name) == xmlMode /\ name \in voidElements

\* isVoidElement, Parser.ts 254-256.
isVoidElement(name) == ~xmlMode /\ name \in voidElements

\* A mutant of onopentagend: the close call for a void element is left out.
onopentagendNoVoidClose(s) ==
    LET s1 == updatePosition(s, 1)
        s2 == IF s1.attribs # <<>>
              THEN [emit(s1, "onopentag", s1.tagname, "", s1.attribs[1])
                        EXCEPT !.attribs = <<>>]
              ELSE s1
    IN [s2 EXCEPT !.tagname = ""]

\* onopentagend, Parser.ts 289-299.
onopentagend(s) ==
    LET s1 == updatePosition(s, 1)
        s2 == IF s1.attribs # <<>>
              THEN [emit(s1, "onopentag", s1.tagname, "", s1.attribs[1])
                        EXCEPT !.attribs = <<>>]
              ELSE s1
        s3 == IF "onclosetag" \in cbs /\ isVoidElement(s2.tagname)
              THEN emit(s2, "onclosetag", s2.tagname, "", EmptyAttribs)
              ELSE s2
    IN [s3 EXCEPT !.tagname = ""]

\* A mutant of closeCurrentTag: the top of the stack is not compared with
\* the name.
closeCurrentTagUnchecked(s) ==
    LET name == s.tagname
        s1 == onopentagend(s)
    IN [emit(s1, "onclosetag", name, "", EmptyAttribs) EXCEPT !.stack = pop(@)]

\* A mutant of closeCurrentTag: the close call is made, the stack not popped.
closeCurrentTagNoPop(s) ==
    LET name == s.tagname
        s1 == onopentagend(s)
    IN IF topIs(s1.stack, name)
       THEN emit(s1, "onclosetag", name, "", EmptyAttribs)
       ELSE s1

\* A mutant of closeCurrentTag: the stack is popped by the close-tag handler
\* only.
closeCurrentTagIfHandled(s) ==
    LET name == s.tagname
        s1 == onopentagend(s)
    IN IF topIs(s1.stack, name) /\ "onclosetag" \in cbs
       THEN [emit(s1, "onclosetag", name, "", EmptyAttribs)
                 EXCEPT !.stack = pop(@)]
       ELSE s1

\* closeCurrentTag, Parser.ts 344-355.
closeCurrentTag(s) ==
    LET name == s.tagname
        s1 == onopentagend(s)
    IN IF topIs(s1.stack, name)
       THEN [emit(s1, "onclosetag", name, "", EmptyAttribs)
                 EXCEPT !.stack = pop(@)]
       ELSE s1

\* The loop of onclosetag, Parser.ts 317-320: n times, pop the stack and
\* hand the popped name to the close-tag handler.
RECURSIVE popAndClose(_, _)
popAndClose(s, n) ==
    IF n = 0 THEN s
    ELSE popAndClose(
             [emit(s, "onclosetag", s.stack[Len(s.stack)], "", EmptyAttribs)
                  EXCEPT !.stack = pop(@)],
             n - 1)

RECURSIVE onclosetag(_, _)
RECURSIVE onopentagname(_, _)
RECURSIVE impliedClose(_, _)

\* onclosetag, Parser.ts 301-330.
onclosetag(s, rawname) ==
    LET s1 == updatePosition(s, 1)
        name == IF lowerCaseTagNames THEN toLowerCase(rawname) ELSE rawname
        s2 == IF name \in foreignContextElements
                 \/ name \in htmlIntegrationElements
              THEN [s1 EXCEPT !.foreignContext = pop(@)]
              ELSE s1
        pos == lastIndexOf(s2.stack, name)
    IN IF Len(s2.stack) # 0 /\ ~isVoidElement(name)
       THEN IF pos # 0
            THEN IF "onclosetag" \in cbs
                 THEN popAndClose(s2, Len(s2.stack) - (pos - 1))
                 ELSE [s2 EXCEPT !.stack = SubSeq(@, 1, pos - 1)]
            ELSE IF name = "p" /\ ~xmlMode
                 THEN closeCurrentTag(onopentagname(s2, name))
                 ELSE s2
       ELSE IF ~xmlMode /\ (name = "br" \/ name = "p")
            THEN closeCurrentTag(onopentagname(s2, name))
            ELSE s2

\* A mutant of impliedClose: an `if` for the `while`, one element closed.
impliedCloseOnce(s, name) ==
    IF Len(s.stack) > 0 /\ s.stack[Len(s.stack)] \in openImpliesClose[name]
    THEN onclosetag(s, s.stack[Len(s.stack)])
    ELSE s

\* The loop of onopentagname, Parser.ts 268-275.
impliedClose(s, name) ==
    IF Len(s.stack) > 0 /\ s.stack[Len(s.stack)] \in openImpliesClose[name]
    THEN impliedClose(onclosetag(s, s.stack[Len(s.stack)]), name)
    ELSE s

\* onopentagname, Parser.ts 258-287.
onopentagname(s, rawname) ==
    LET name == IF lowerCaseTagNames THEN toLowerCase(rawname) ELSE rawname
        s1 == [s EXCEPT !.tagname = name]
        s2 == IF ~xmlMode /\ hasOpenImpliesClose(name)
              THEN impliedClose(s1, name)
              ELSE s1
        s3 == IF ~isVoidElement(name)
              THEN [s2 EXCEPT
                      !.stack = Append(@, name),
                      !.foreignContext =
                          IF name \in foreignContextElements
                          THEN Append(@, TRUE)
                          ELSE IF name \in htmlIntegrationElements
                               THEN Append(@, FALSE)
                               ELSE @]
              ELSE s2
        s4 == emit(s3, "onopentagname", name, "", EmptyAttribs)
    IN IF "onopentag" \in cbs THEN [s4 EXCEPT !.attribs = <<EmptyAttribs>>]
       ELSE s4

\* A mutant of onselfclosingtag: the foreign context is not looked at.
onselfclosingtagNoForeign(s) ==
    IF xmlMode \/ recognizeSelfClosing
    THEN closeCurrentTag(s)
    ELSE onopentagend(s)

\* onselfclosingtag, Parser.ts 332-342.
onselfclosingtag(s) ==
    IF xmlMode \/ recognizeSelfClosing
       \/ (Len(s.foreignContext) > 0 /\ s.foreignContext[Len(s.foreignContext)])
    THEN closeCurrentTag(s)
    ELSE onopentagend(s)

\* A mutant of closeAll: the stack is read from its bottom to its top.
RECURSIVE closeAllBottomUp(_, _)
closeAllBottomUp(s, i) ==
    IF i > 0
    THEN emit(closeAllBottomUp(s, i - 1), "onclosetag", s.stack[i], "",
              EmptyAttribs)
    ELSE s

\* The loop of onend, Parser.ts 428-432: the stack is read from its top to
\* its bottom, index i counting down; it is not popped.
RECURSIVE closeAll(_, _)
closeAll(s, i) ==
    IF i > 0
    THEN closeAll(emit(s, "onclosetag", s.stack[i], "", EmptyAttribs), i - 1)
    ELSE s

\* onend, Parser.ts 426-435.
onend(s) ==
    LET s1 == IF "onclosetag" \in cbs THEN closeAll(s, Len(s.stack)) ELSE s
    IN emit(s1, "onend", "", "", EmptyAttribs)

\* reset, Parser.ts 448-456.  tokenizer.reset() is the Tokenizer's own
\* (see Reset below).
reset(s) ==
    LET s1 == emit(s, "onreset", "", "", EmptyAttribs)
        s2 == [s1 EXCEPT !.tagname = "", !.attribname = "", !.attribs = <<>>,
                         !.stack = <<>>]
    IN emit(s2, "onparserinit", "", "", EmptyAttribs)

\* onattribname, Parser.ts 357-362.
onattribname(s, name) ==
    [s EXCEPT !.attribname =
         IF lowerCaseAttributeNames THEN toLowerCase(name) ELSE name]

\* onattribdata, Parser.ts 364-366.
onattribdata(s, value) == [s EXCEPT !.attribvalue = @ \o value]

\* The assignment obj[name] = value of Parser.ts 374 on an object made by
\* a literal {}: it adds or sets the own property `name`, except that the
\* name "__proto__" reaches the accessor inherited from Object.prototype,
\* whose setter ignores a string and adds no property.
setProperty(obj, name, value) ==
    IF name = "__proto__" THEN obj
    ELSE [a \in DOMAIN obj \cup {name} |-> IF a = name THEN value ELSE obj[a]]

\* onattribend, Parser.ts 368-378.
onattribend(s) ==
    LET s1 == emit(s, "onattribute", s.attribname, s.attribvalue, EmptyAttribs)
        s2 == IF s1.attribs # <<>> /\ s1.attribname \notin DOMAIN s1.attribs[1]
              THEN [s1 EXCEPT !.attribs =
                       <<setProperty(s1.attribs[1], s1.attribname,
                                     s1.attribvalue)>>]
              ELSE s1
    IN [s2 EXCEPT !.attribname = "", !.attribvalue = ""]

----------------------------------------------------------------------------
(* The state machine. *)

\* The constructor, Parser.ts 221-232, for the options and the handlers
\* given.  lowerCaseTags is "undefined" (not given), "true" or "false";
\* lowerCaseAttributeNames and recognizeCDATA are not given and take their
\* defaults.
Constructed(xml, selfClosing, lowerTags, handlers) ==
    /\ xmlMode = xml
    /\ recognizeSelfClosing = selfClosing
    /\ recognizeCDATA = xml
    /\ lowerCaseTagNames =
           (IF lowerTags = "undefined" THEN ~xml ELSE lowerTags = "true")
    /\ lowerCaseAttributeNames = ~xml
    /\ cbs = handlers
    /\ startIndex = 0
    /\ endIndex = <<>>
    /\ tagname = ""
    /\ attribname = ""
    /\ attribvalue = ""
    /\ attribs = <<>>
    /\ stack = <<>>
    /\ foreignContext = <<>>
    /\ sectionStart = 0
    /\ index = 0
    /\ last = [kind |-> "constructor", name |-> ""]
    /\ out = IF "onparserinit" \in handlers
             THEN <<Call("onparserinit", "", "", EmptyAttribs)>>
             ELSE <<>>
    /\ spans = IF "onparserinit" \in handlers
               THEN <<[startIndex |-> 0, endIndex |-> <<>>]>>
               ELSE <<>>
    /\ input = <<>>
    /\ events = <<>>
    /\ prevInput = <<>>
    /\ prevEvents = <<>>
    /\ trace = <<>>

\* The fields after a method has run, the Handler calls it made, and the
\* call it was.
Becomes(s, kind, name) ==
    /\ startIndex' = s.startIndex
    /\ endIndex' = s.endIndex
    /\ tagname' = s.tagname
    /\ attribname' = s.attribname
    /\ attribvalue' = s.attribvalue
    /\ attribs' = s.attribs
    /\ stack' = s.stack
    /\ foreignContext' = s.foreignContext
    /\ out' = s.out
    /\ spans' = s.spans
    /\ last' = [kind |-> kind, name |-> name]
    /\ UNCHANGED config

\* The Tokenizer has signalled the end of the input (its end(), reached
\* through Parser.end, 483-485): it makes no call after onend.
Ended == last.kind = "end"

\* The Tokenizer is inside an open tag: it has called onopentagname and not
\* yet onopentagend or onselfclosingtag.
InTag == tagname # ""

OnOpenTagName(name) ==
    /\ ~Ended /\ ~InTag
    /\ Becomes(onopentagname(This, name), "opentagname", name)
    /\ UNCHANGED tokenizer

OnOpenTagEnd ==
    /\ ~Ended /\ InTag
    /\ Becomes(onopentagend(This), "opentagend", tagname)
    /\ UNCHANGED tokenizer

OnSelfClosingTag ==
    /\ ~Ended /\ InTag
    /\ Becomes(onselfclosingtag(This), "selfclosingtag", tagname)
    /\ UNCHANGED tokenizer

OnCloseTag(name) ==
    /\ ~Ended /\ ~InTag
    /\ Becomes(onclosetag(This, name), "closetag", name)
    /\ UNCHANGED tokenizer

\* The Tokenizer calls onattribname once the name of an attribute is read,
\* onattribdata for each piece of its value and onattribend at its end, all
\* inside an open tag.
OnAttribName(name) ==
    /\ ~Ended /\ InTag /\ attribname = ""
    /\ Becomes(onattribname(This, name), "attribname", name)
    /\ UNCHANGED tokenizer

OnAttribData(value) ==
    /\ ~Ended /\ InTag /\ attribname # ""
    /\ Becomes(onattribdata(This, value), "attribdata", value)
    /\ UNCHANGED tokenizer

OnAttribEnd ==
    /\ ~Ended /\ InTag /\ attribname # ""
    /\ Becomes(onattribend(This), "attribend", "")
    /\ UNCHANGED tokenizer

\* The Tokenizer calls ontext, oncomment and oncdata between tags.
OnText(data) ==
    /\ ~Ended /\ ~InTag
    /\ Becomes(ontext(This, data), "text", data)
    /\ UNCHANGED tokenizer

OnComment(value) ==
    /\ ~Ended /\ ~InTag
    /\ Becomes(oncomment(This, value), "comment", value)
    /\ UNCHANGED tokenizer

OnCData(value) ==
    /\ ~Ended /\ ~InTag
    /\ Becomes(oncdata(This, value), "cdata", value)
    /\ UNCHANGED tokenizer

\* The Tokenizer reads on to the end of the next token: its cursor, which
\* never goes back, passes at least the first character of the token, and
\* the section it is gathering starts after the place of the last call and
\* before the cursor.  It makes no call to the Parser in doing so.
Scan(start, cursor) ==
    /\ ~Ended /\ last.kind # "scan"
    /\ index + 2 <= cursor /\ cursor <= index + 3
    /\ index < start /\ start < cursor
    /\ sectionStart' = start
    /\ index' = cursor
    /\ last' = [kind |-> "scan", name |-> ""]
    /\ out' = <<>>
    /\ spans' = <<>>
    /\ UNCHANGED <<config, fields>>

\* The Tokenizer has read on since the last call.
Scanned == last.kind = "scan"

\* end(), Parser.ts 483-485: the Tokenizer ends and calls onend.
OnEnd ==
    /\ ~Ended
    /\ Becomes(onend(This), "end", "")
    /\ UNCHANGED tokenizer

\* reset(), Parser.ts 448-456; tokenizer.reset() starts the Tokenizer over.
Reset ==
    /\ Becomes(reset(This), "reset", "")
    /\ sectionStart' = 0
    /\ index' = 0

\* The session is not recorded.
Unrecorded == UNCHANGED session

\* The call as the Tokenizer or the user made it: onopentagname,
\* onclosetag, onattribname, onattribdata, ontext, oncomment and oncdata
\* take a string, the others modelled here do not.
Fed(call) ==
    IF call.kind \in {"opentagname", "closetag", "attribname", "attribdata",
                      "text", "comment", "cdata"}
    THEN call
    ELSE [kind |-> call.kind, name |-> ""]

\* A reset() starts a new record and the old one is dropped.
Forgotten ==
    /\ input' = <<>>
    /\ events' = <<>>
    /\ trace' = <<>>
    /\ UNCHANGED <<prevInput, prevEvents>>

\* The session is recorded: the call and the Handler calls it made are
\* appended; a reset() starts a new record and keeps the old one.
Recorded ==
    IF last'.kind = "reset"
    THEN /\ prevInput' = input
         /\ prevEvents' = events
         /\ input' = <<>>
         /\ events' = <<>>
         /\ trace' = <<>>
    ELSE /\ input' = Append(input, Fed(last'))
         /\ events' = events \o out'
         /\ trace' = Append(trace, [stack |-> stack',
                                    foreignContext |-> foreignContext',
                                    delivered |-> Len(events')])
         /\ UNCHANGED <<prevInput, prevEvents>>

----------------------------------------------------------------------------
(* Spec: any calls, in the order the Tokenizer can make them, under any    *)
(* options, with the stack kept to MaxDepth.                               *)

\* The tag names fed in: a paragraph, a void element, a list and its items,
\* a table row and its cells, and an upper-case spelling.
TagNames == {"p", "br", "ul", "li", "tr", "td", "P"}

\* The handlers given: all methods, all but onclosetag, all but onopentag,
\* or null.
HandlerSets == {HandlerMethods, HandlerMethods \ {"onclosetag"},
                HandlerMethods \ {"onopentag"}, {}}

Init ==
    \E xml \in BOOLEAN, selfClosing \in BOOLEAN,
       lowerTags \in {"undefined", "true", "false"}, handlers \in HandlerSets :
        Constructed(xml, selfClosing, lowerTags, handlers)

\* The name as the Parser takes it, Parser.ts 259-261 and 303-305.
Folded(name) == IF lowerCaseTagNames THEN toLowerCase(name) ELSE name

\* The bounds on an open tag: the stack is kept to MaxDepth, the
\* foreign-context stack to MaxForeign.
WithinBounds(name) ==
    /\ Len(stack) < MaxDepth
    /\ \/ Len(foreignContext) < MaxForeign
       \/ Folded(name) \notin foreignContextElements \cup htmlIntegrationElements

Next ==
    \/ \E name \in TagNames :
           WithinBounds(name) /\ OnOpenTagName(name) /\ Unrecorded
    \/ OnOpenTagEnd /\ Unrecorded
    \/ OnSelfClosingTag /\ Unrecorded
    \/ \E name \in TagNames : OnCloseTag(name) /\ Unrecorded
    \/ OnEnd /\ Unrecorded
    \/ Reset /\ Unrecorded

Spec == Init /\ [][Next]_vars

----------------------------------------------------------------------------
(* SpecForeign: the same calls over the names of foreign content.         *)

\* The tag names fed in: a block, a foreign element, an element inside it,
\* and an HTML integration point.
ForeignTagNames == {"div", "svg", "path", "desc"}

NextForeign ==
    \/ \E name \in ForeignTagNames :
           WithinBounds(name) /\ OnOpenTagName(name) /\ Unrecorded
    \/ OnOpenTagEnd /\ Unrecorded
    \/ OnSelfClosingTag /\ Unrecorded
    \/ \E name \in ForeignTagNames : OnCloseTag(name) /\ Unrecorded
    \/ OnEnd /\ Unrecorded
    \/ Reset /\ Unrecorded

SpecForeign == Init /\ [][NextForeign]_vars

----------------------------------------------------------------------------
(* SpecBalanced: one recorded session whose tags are well-formed and      *)
(* balanced: every open tag is completed, and closed by its own close tag  *)
(* in nested order, before the input ends.  A close-tag handler is         *)
(* registered.                                                             *)

BalancedTagNames == {"p", "div", "br", "P"}

\* The open tags of the input that its close tags have not matched yet.
RECURSIVE OpenIn(_)
OpenIn(calls) ==
    IF calls = <<>> THEN <<>>
    ELSE LET before == OpenIn(SubSeq(calls, 1, Len(calls) - 1))
             call == calls[Len(calls)]
         IN CASE call.kind = "opentagname" -> Append(before, call.name)
              [] call.kind = "closetag" -> pop(before)
              [] OTHER -> before

\* The number of open tags in the input.
OpenTagsIn(calls) ==
    Cardinality({i \in 1..Len(calls) : calls[i].kind = "opentagname"})

\* recognizeSelfClosing is read by onselfclosingtag alone, which balanced
\* input does not call.
InitBalanced ==
    \E xml \in BOOLEAN, lowerTags \in {"undefined", "true", "false"} :
        Constructed(xml, FALSE, lowerTags, HandlerMethods)

NextBalanced ==
    \/ \E name \in BalancedTagNames :
           OpenTagsIn(input) < MaxTags /\ OnOpenTagName(name) /\ Recorded
    \/ OnOpenTagEnd /\ Recorded
    \/ \E name \in BalancedTagNames :
           topIs(OpenIn(input), name) /\ OnCloseTag(name) /\ Recorded
    \/ OpenIn(input) = <<>> /\ ~InTag /\ OnEnd /\ Recorded

SpecBalanced == InitBalanced /\ [][NextBalanced]_vars

----------------------------------------------------------------------------
(* SpecReparse: a recorded session to its end, reset(), and a second      *)
(* session that is fed the calls of the first, in their order.             *)

ReparseTagNames == {"div", "svg"}

\* The call just recorded is the one the session before made at that place.
Replayed ==
    \/ prevInput' = <<>>
    \/ /\ Len(input') <= Len(prevInput')
       /\ input'[Len(input')] = prevInput'[Len(input')]

InitReparse ==
    \E xml \in BOOLEAN, selfClosing \in BOOLEAN,
       lowerTags \in {"undefined", "true", "false"} :
        Constructed(xml, selfClosing, lowerTags, HandlerMethods)

NextReparse ==
    \/ \E name \in ReparseTagNames :
           Len(input) < MaxInput /\ OnOpenTagName(name) /\ Recorded /\ Replayed
    \/ Len(input) < MaxInput /\ OnOpenTagEnd /\ Recorded /\ Replayed
    \/ Len(input) < MaxInput /\ OnSelfClosingTag /\ Recorded /\ Replayed
    \/ \E name \in ReparseTagNames :
           Len(input) < MaxInput /\ OnCloseTag(name) /\ Recorded /\ Replayed
    \/ Len(input) < MaxInput /\ OnEnd /\ Recorded /\ Replayed
    \/ Ended /\ prevInput = <<>> /\ Reset /\ Recorded

SpecReparse == InitReparse /\ [][NextReparse]_vars

----------------------------------------------------------------------------
(* SpecAttr: recorded sessions of open tags with attributes, under any     *)
(* handlers, with reset() at any moment.  The Tokenizer ends an attribute  *)
(* before it ends the tag.                                                 *)

\* The longest session recorded and the longest attribute value, in
\* fragments of one character.
MaxAttrInput == 7
MaxValue == 2

AttrTagNames == {"div", "br"}
AttribNames == {"id", "ID", "__proto__"}
Fragments == {"x", "y"}

InitAttr ==
    \E xml \in BOOLEAN, handlers \in HandlerSets :
        Constructed(xml, FALSE, "undefined", handlers)

NextAttr ==
    \/ \E name \in AttrTagNames :
           /\ Len(input) < MaxAttrInput /\ WithinBounds(name)
           /\ OnOpenTagName(name) /\ Recorded
    \/ \E name \in AttribNames :
           Len(input) < MaxAttrInput /\ OnAttribName(name) /\ Recorded
    \/ \E value \in Fragments :
           /\ Len(input) < MaxAttrInput /\ Len(attribvalue) < MaxValue
           /\ OnAttribData(value) /\ Recorded
    \/ Len(input) < MaxAttrInput /\ OnAttribEnd /\ Recorded
    \/ Len(input) < MaxAttrInput /\ attribname = "" /\ OnOpenTagEnd /\ Recorded
    \/ Reset /\ Forgotten

SpecAttr == InitAttr /\ [][NextAttr]_vars

----------------------------------------------------------------------------
(* SpecHandlers: a recorded session of a Parser with every Handler method  *)
(* registered, then a second Parser, constructed with the same options and *)
(* any subset of the methods, which is fed the calls of the first.         *)

HandlerTagNames == {"p", "br", "svg"}

\* The Handler methods whose presence the Parser tests before it acts
\* (Parser.ts 286, 291, 295, 314, 427); the others are called through ?.
\* and nothing else depends on them.
MethodsTested == {"onopentag", "onclosetag"}

\* The handlers given to the second Parser: any of the methods tested, with
\* all of the other methods or with none of them; the empty set is null.
HandlerSubsets ==
    {tested \cup others : tested \in SUBSET MethodsTested,
                          others \in {{}, HandlerMethods \ MethodsTested}}

\* The second Parser's session is recorded beside the first one's, whose
\* trace is kept.
Compared ==
    /\ input' = Append(input, Fed(last'))
    /\ events' = events \o out'
    /\ UNCHANGED <<prevInput, prevEvents, trace>>

\* The session of the first Parser, then that of the second.
Kept == IF prevInput = <<>> THEN Recorded ELSE Compared /\ Replayed

\* new Parser(cbs, options), Parser.ts 221-232, with the options of the
\* first Parser and the handlers given (null is the empty set), once the
\* first session is over.
NewParser(handlers) ==
    /\ prevInput = <<>> /\ (Ended \/ Len(input) = MaxInput)
    /\ cbs' = handlers
    /\ UNCHANGED <<xmlMode, recognizeSelfClosing, recognizeCDATA,
                   lowerCaseTagNames, lowerCaseAttributeNames>>
    /\ startIndex' = 0
    /\ endIndex' = <<>>
    /\ tagname' = ""
    /\ attribname' = ""
    /\ attribvalue' = ""
    /\ attribs' = <<>>
    /\ stack' = <<>>
    /\ foreignContext' = <<>>
    /\ sectionStart' = 0
    /\ index' = 0
    /\ last' = [kind |-> "constructor", name |-> ""]
    /\ out' = IF "onparserinit" \in handlers
              THEN <<Call("onparserinit", "", "", EmptyAttribs)>>
              ELSE <<>>
    /\ spans' = IF "onparserinit" \in handlers
                THEN <<[startIndex |-> 0, endIndex |-> <<>>]>>
                ELSE <<>>
    /\ prevInput' = input
    /\ prevEvents' = events
    /\ input' = <<>>
    /\ events' = <<>>
    /\ UNCHANGED trace

InitHandlers ==
    \E xml \in BOOLEAN, selfClosing \in BOOLEAN :
        Constructed(xml, selfClosing, "undefined", HandlerMethods)

NextHandlers ==
    \/ \E name \in HandlerTagNames :
           Len(input) < MaxInput /\ OnOpenTagName(name) /\ Kept
    \/ Len(input) < MaxInput /\ OnAttribName("id") /\ Kept
    \/ Len(input) < MaxInput /\ OnAttribEnd /\ Kept
    \/ Len(input) < MaxInput /\ attribname = "" /\ OnOpenTagEnd /\ Kept
    \/ Len(input) < MaxInput /\ attribname = "" /\ OnSelfClosingTag /\ Kept
    \/ \E name \in HandlerTagNames :
           Len(input) < MaxInput /\ OnCloseTag(name) /\ Kept
    \/ Len(input) < MaxInput /\ OnEnd /\ Kept
    \/ \E handlers \in HandlerSubsets : NewParser(handlers)

SpecHandlers == InitHandlers /\ [][NextHandlers]_vars

----------------------------------------------------------------------------
(* SpecPos: recorded sessions of tags, text, comments and CDATA sections,  *)
(* the Tokenizer reading on before each call that recomputes the position, *)
(* with reset() at any moment.                                             *)

\* The Tokenizer's cursor is not moved beyond this offset.
MaxIndex == 6

PosTagNames == {"p", "br"}

InitPos == \E xml \in BOOLEAN : Constructed(xml, FALSE, "undefined", HandlerMethods)

NextPos ==
    \/ \E start \in 1..MaxIndex, cursor \in 1..MaxIndex :
           Scan(start, cursor) /\ Unrecorded
    \/ \E name \in PosTagNames :
           /\ Len(input) < MaxInput /\ WithinBounds(name)
           /\ OnOpenTagName(name) /\ Recorded
    \/ Len(input) < MaxInput /\ Scanned /\ OnOpenTagEnd /\ Recorded
    \/ \E name \in PosTagNames :
           Len(input) < MaxInput /\ Scanned /\ OnCloseTag(name) /\ Recorded
    \/ Len(input) < MaxInput /\ Scanned /\ OnText("x") /\ Recorded
    \/ Len(input) < MaxInput /\ Scanned /\ OnComment("x") /\ Recorded
    \/ Len(input) < MaxInput /\ Scanned /\ OnCData("x") /\ Recorded
    \/ Reset /\ Forgotten

SpecPos == InitPos /\ [][NextPos]_vars

----------------------------------------------------------------------------
(* What the claims speak of. *)

\* The calls of `calls` that reach the Handler: those of registered methods.
Delivered(calls) == SelectSeq(calls, LAMBDA c : c.cb \in cbs)

CloseCall(name) == Call("onclosetag", name, "", EmptyAttribs)
OpenNameCall(name) == Call("onopentagname", name, "", EmptyAttribs)
OpenCall(name, map) == Call("onopentag", name, "", map)
EndCall == Call("onend", "", "", EmptyAttribs)

\* Close calls for the d topmost elements of st, the top one first.
TopDown(st, d) == [i \in 1..d |-> CloseCall(st[Len(st) + 1 - i])]

\* The name is on the stack.
OnStack(st, name) == \E i \in 1..Len(st) : st[i] = name

\* The depth (1 = top) of the innermost occurrence of name on st.
DepthOf(st, name) ==
    CHOOSE d \in 1..Len(st) :
        /\ st[Len(st) + 1 - d] = name
        /\ \A e \in 1..(d - 1) : st[Len(st) + 1 - e] # name

\* The number of elements at the top of st that all belong to set.
TopRun(st, set) ==
    CHOOSE k \in 0..Len(st) :
        /\ \A i \in 1..k : st[Len(st) + 1 - i] \in set
        /\ k = Len(st) \/ st[Len(st) - k] \notin set

\* The name is void for this parser: a void element's, outside xml-mode.
Void(name) == ~xmlMode /\ name \in voidElements

----------------------------------------------------------------------------
(* The claims checked under Spec. *)

\* C3: processing end-of-input with a close-tag handler registered makes one
\* close call for every element on the stack, innermost first, and then the
\* one onend call; with no close-tag handler it makes the onend call alone.
C3_EndClosesInnermostFirst ==
    [][last'.kind = "end" /\ "onend" \in cbs =>
          IF "onclosetag" \in cbs
          THEN out' = TopDown(stack, Len(stack)) \o <<EndCall>>
          ELSE out' = <<EndCall>>]_vars

\* C3's case: end-of-input with li open inside ul closed li, then ul, then
\* signalled the end.
C3_Witness ==
    /\ last.kind = "end"
    /\ out = <<CloseCall("li"), CloseCall("ul"), EndCall>>

\* C4: after end-of-input has been processed the stack is empty.
C4_StackEmptyAfterEnd == last.kind = "end" => stack = <<>>

\* C6: outside xml-mode, with a close-tag handler registered, the end of an
\* open tag of a void element (plain or with a slash) makes the open-tag call,
\* if that method is registered, and right after it exactly one close call for
\* the element, and nothing else; and no step puts a void element on the
\* stack.
C6_VoidElementClosedAtOnce ==
    [][/\ (/\ last'.kind \in {"opentagend", "selfclosingtag"}
           /\ ~xmlMode /\ tagname \in voidElements
           /\ "onclosetag" \in cbs)
          => /\ out' = Delivered(<<OpenCall(tagname, EmptyAttribs)>>)
                           \o <<CloseCall(tagname)>>
             /\ stack' = stack
       /\ ~xmlMode => \A i \in 1..Len(stack') : stack'[i] \notin voidElements
      ]_vars

\* C6's case: <br> inside <p>, all handlers registered.
C6_Witness ==
    /\ last = [kind |-> "opentagend", name |-> "br"]
    /\ ~xmlMode
    /\ stack = <<"p">>
    /\ out = <<OpenCall("br", EmptyAttribs), CloseCall("br")>>

\* C7: outside xml-mode, an open tag whose name has an auto-close set pops
\* the elements at the top of the stack that belong to the set, as many as
\* there are in a row and no more, makes a close call for each (when the
\* close-tag handler is registered), top one first, and only then the
\* open-tag-name call; in xml-mode, and for a name with no set, nothing is
\* popped or closed.
C7_AutoClose ==
    [][last'.kind = "opentagname" =>
          LET name == Folded(last'.name)
              k == IF ~xmlMode /\ name \in DOMAIN openImpliesClose
                   THEN TopRun(stack, openImpliesClose[name])
                   ELSE 0
              rest == SubSeq(stack, 1, Len(stack) - k)
          IN /\ out' = Delivered(TopDown(stack, k) \o <<OpenNameCall(name)>>)
             /\ stack' = IF Void(name) THEN rest ELSE Append(rest, name)
      ]_vars

\* C7's case: <tr><td><tr>: the second tr closes td, then the first tr, and
\* only then opens.
C7_Witness ==
    /\ last = [kind |-> "opentagname", name |-> "tr"]
    /\ stack = <<"tr">>
    /\ out = <<CloseCall("td"), CloseCall("tr"), OpenNameCall("tr")>>

\* C9: outside xml-mode, a close tag p whose name is not on the stack, and a
\* close tag br whatever the stack, makes the open calls for the name and
\* right after them its close call, and leaves the stack as it was; in
\* xml-mode a close tag whose name is not on the stack makes no call.
C9_StrayCloseRecovery ==
    [][last'.kind = "closetag" =>
          LET name == Folded(last'.name)
          IN /\ (~xmlMode /\ (name = "br" \/ (name = "p" /\ ~OnStack(stack, "p"))))
                => /\ out' = Delivered(<<OpenNameCall(name),
                                         OpenCall(name, EmptyAttribs),
                                         CloseCall(name)>>)
                   /\ stack' = stack
             /\ (xmlMode /\ ~OnStack(stack, name))
                => /\ out' = <<>>
                   /\ stack' = stack
      ]_vars

\* C9's case: </p> with ul open and no p: p is opened and closed, ul stays.
C9_Witness ==
    /\ last = [kind |-> "closetag", name |-> "p"]
    /\ stack = <<"ul">>
    /\ out = <<OpenNameCall("p"), OpenCall("p", EmptyAttribs), CloseCall("p")>>

\* C10: a close tag naming a non-void element that is on the stack, its
\* innermost occurrence at depth d, shrinks the stack by exactly d, leaving
\* the elements below untouched; with a close-tag handler registered it makes
\* exactly d close calls, for the d topmost elements from the top down, the
\* last one for the name; with none it makes no call.
C10_CloseTagPopsToMatch ==
    [][last'.kind = "closetag" =>
          LET name == Folded(last'.name)
          IN (~Void(name) /\ OnStack(stack, name))
             => LET d == DepthOf(stack, name)
                IN /\ stack' = SubSeq(stack, 1, Len(stack) - d)
                   /\ out' = Delivered(TopDown(stack, d))
                   /\ "onclosetag" \in cbs
                      => Len(out') = d /\ out'[d] = CloseCall(name)
      ]_vars

\* C10's case: </ul> with ul, ul, li open closes li and the inner ul, and
\* leaves the outer ul.
C10_Witness ==
    /\ last = [kind |-> "closetag", name |-> "ul"]
    /\ stack = <<"ul">>
    /\ out = <<CloseCall("li"), CloseCall("ul")>>

----------------------------------------------------------------------------
(* The claims checked under SpecForeign. *)

ResetCall == Call("onreset", "", "", EmptyAttribs)
InitCall == Call("onparserinit", "", "", EmptyAttribs)

\* C5: right after reset() the open-element stack and the foreign-context
\* stack are empty and no attribute mapping is live, and reset() has made
\* the onreset call and then the onparserinit call.
C5_ResetClearsAllStacks ==
    last.kind = "reset" =>
        /\ stack = <<>>
        /\ foreignContext = <<>>
        /\ attribs = <<>>
        /\ out = Delivered(<<ResetCall, InitCall>>)

\* C8: a self-closing tag of a non-void element is closed at once (the
\* open-tag call, right after it the close call, the element popped) when
\* xml-mode or recognize-self-closing is set or the innermost foreign-context
\* entry is true, and only then; otherwise it is processed as an open tag:
\* the open-tag call alone, the element left on top of the stack.
C8_SelfClosing ==
    [][(last'.kind = "selfclosingtag" /\ ~Void(tagname)) =>
          /\ topIs(stack, tagname)
          /\ IF xmlMode \/ recognizeSelfClosing
                \/ (foreignContext # <<>>
                    /\ foreignContext[Len(foreignContext)] = TRUE)
             THEN /\ out' = Delivered(<<OpenCall(tagname, EmptyAttribs),
                                        CloseCall(tagname)>>)
                  /\ stack' = SubSeq(stack, 1, Len(stack) - 1)
             ELSE /\ out' = Delivered(<<OpenCall(tagname, EmptyAttribs)>>)
                  /\ stack' = stack
      ]_vars

\* C8's case: <path/> inside <svg> under the default options is closed at
\* once.  (<div/> with no foreign-context entry is the ELSE branch above
\* under the default options and the THEN branch in xml-mode.)
C8_Witness ==
    /\ last = [kind |-> "selfclosingtag", name |-> "path"]
    /\ ~xmlMode /\ ~recognizeSelfClosing
    /\ stack = <<"svg">>
    /\ foreignContext = <<TRUE>>
    /\ out = <<OpenCall("path", EmptyAttribs), CloseCall("path")>>

----------------------------------------------------------------------------
(* The claim checked under SpecBalanced. *)

\* The elements the Handler has seen opened and not closed, innermost last,
\* and whether every close call so far named the innermost of them.
RECURSIVE Nesting(_)
Nesting(calls) ==
    IF calls = <<>> THEN [nested |-> TRUE, open |-> <<>>]
    ELSE LET before == Nesting(SubSeq(calls, 1, Len(calls) - 1))
             call == calls[Len(calls)]
         IN CASE call.cb = "onopentagname" ->
                     [before EXCEPT !.open = Append(@, call.name)]
              [] call.cb = "onclosetag" ->
                     [nested |-> before.nested /\ topIs(before.open, call.name),
                      open |-> pop(before.open)]
              [] OTHER -> before

\* C1: for input whose tags are well-formed and balanced, with a close-tag
\* handler registered, every close call names the element opened last and
\* not yet closed, and once end-of-input is processed every opened element
\* has been closed and the open-element stack is empty.
C1_BalancedInputBalancedEvents ==
    /\ Nesting(events).nested
    /\ Ended => Nesting(events).open = <<>> /\ stack = <<>>

\* C1's case: <p><div></div></p> outside xml-mode, where the div closes the
\* p and the p's own close tag finds no p.
C1_Witness ==
    /\ Ended
    /\ ~xmlMode
    /\ input = <<[kind |-> "opentagname", name |-> "p"],
                 [kind |-> "opentagend", name |-> ""],
                 [kind |-> "opentagname", name |-> "div"],
                 [kind |-> "opentagend", name |-> ""],
                 [kind |-> "closetag", name |-> "div"],
                 [kind |-> "closetag", name |-> "p"],
                 [kind |-> "end", name |-> ""]>>
    /\ Len(events) = 10

----------------------------------------------------------------------------
(* The claim checked under SpecReparse. *)

\* C2: a session parsed to its end, reset(), and the same input parsed to
\* its end again: the Handler calls of the two sessions are the same.
C2_ReparseSameEvents ==
    (Ended /\ prevInput # <<>> /\ input = prevInput) => events = prevEvents

----------------------------------------------------------------------------
(* Further claims checked under Spec. *)

\* C15: outside xml-mode the open-element stack holds no name of the
\* void-element set, in every reachable state.
C15_NoVoidElementOnStack ==
    ~xmlMode => \A i \in 1..Len(stack) : stack[i] \notin voidElements

\* C15's case: <br> has been opened and completed inside <ul><li>, outside
\* xml-mode, and is not on the stack.
C15_Witness ==
    /\ ~xmlMode
    /\ last = [kind |-> "opentagend", name |-> "br"]
    /\ stack = <<"ul", "li">>

\* C20: the loops of a call end.  In every reachable state, for every tag
\* name with an auto-close set, outside xml-mode: while the top of the stack
\* belongs to the set, one turn of the auto-close loop (onclosetag on the
\* top) removes exactly the top element, so the loop takes at most as many
\* turns as the stack is deep, and the whole loop leaves the stack shorter by
\* the number of close calls it makes; and the open-tag-name processing that
\* close-tag processing calls for a stray p or br does not enter the loop, so
\* it calls close-tag processing no further.
C20_LoopsEnd ==
    /\ \A name \in DOMAIN openImpliesClose :
           (~xmlMode /\ stack # <<>>
            /\ stack[Len(stack)] \in openImpliesClose[name])
           => /\ onclosetag(This, stack[Len(stack)]).stack = pop(stack)
              /\ LET after == impliedClose(This, name)
                     turns == Len(stack) - Len(after.stack)
                 IN /\ turns \in 1..Len(stack)
                    /\ after.stack = SubSeq(stack, 1, Len(stack) - turns)
                    /\ "onclosetag" \in cbs => Len(after.out) = turns
    /\ \A name \in {"p", "br"} :
           (~xmlMode /\ (isVoidElement(name) \/ ~OnStack(stack, name)))
           => (hasOpenImpliesClose(name) => impliedClose(This, name) = This)

\* C20's case: tr and td are open and a tr would close both: two turns.
C20_Witness ==
    /\ ~xmlMode
    /\ stack = <<"ul", "tr", "td">>
    /\ Len(impliedClose(This, "tr").stack) = 1

----------------------------------------------------------------------------
(* Further claims checked under SpecForeign. *)

\* The foreign-context entries the elements of a stack call for, bottom to
\* top: TRUE for a foreign element, FALSE for an integration point.
RECURSIVE ForeignEntries(_)
ForeignEntries(st) ==
    IF st = <<>> THEN <<>>
    ELSE LET rest == ForeignEntries(SubSeq(st, 1, Len(st) - 1))
             name == st[Len(st)]
         IN IF name \in foreignContextElements THEN Append(rest, TRUE)
            ELSE IF name \in htmlIntegrationElements THEN Append(rest, FALSE)
            ELSE rest

\* C14: in every reachable state the foreign-context stack holds exactly one
\* entry for each foreign or integration-point element on the open-element
\* stack, in the same order.
C14_ForeignContextParallel == foreignContext = ForeignEntries(stack)

\* Whether a close tag is a mismatched one that the p/br recovery leaves
\* alone: its name is not on the stack, or names a void element, and outside
\* xml-mode it is neither p nor br.
Mismatched(name) ==
    /\ ~OnStack(stack, name) \/ Void(name)
    /\ xmlMode \/ name \notin {"p", "br"}

\* C16: a mismatched close tag outside the p/br recovery is ignored: the call
\* makes no Handler call and changes neither the open-element stack nor the
\* foreign-context stack.
C16_MismatchedCloseIgnored ==
    [][(last'.kind = "closetag" /\ Mismatched(Folded(last'.name)))
       => /\ out' = <<>>
          /\ stack' = stack
          /\ foreignContext' = foreignContext]_vars

----------------------------------------------------------------------------
(* Claims checked under SpecAttr. *)

\* The place of the last onopentagname call in a sequence of Handler calls,
\* 0 if there is none.
RECURSIVE LastOpenName(_)
LastOpenName(calls) ==
    IF calls = <<>> THEN 0
    ELSE IF calls[Len(calls)].cb = "onopentagname" THEN Len(calls)
    ELSE LastOpenName(SubSeq(calls, 1, Len(calls) - 1))

\* The onattribute calls of the open-tag window that is open at the end of a
\* sequence of Handler calls.
Window(calls) ==
    SelectSeq(SubSeq(calls, LastOpenName(calls) + 1, Len(calls)),
              LAMBDA c : c.cb = "onattribute")

\* For each attribute name of a window, the value of the first attribute
\* with that name.
FirstValues(window) ==
    [a \in {window[i].name : i \in 1..Len(window)} |->
        window[CHOOSE i \in 1..Len(window) :
                   /\ window[i].name = a
                   /\ \A j \in 1..(i - 1) : window[j].name # a].value]

\* The window of a call of onopentagend is seen in full by the Handler.
WindowSeen ==
    /\ last'.kind = "opentagend"
    /\ {"onopentagname", "onattribute", "onopentag"} \subseteq cbs

\* C11: the mapping delivered with the open-tag event holds, for each
\* attribute name seen since the tag's open-tag-name event, the value of the
\* first attribute with that name, and nothing else.
C11_FirstAttributeWins ==
    [][WindowSeen
       => out'[1] = OpenCall(last'.name, FirstValues(Window(events)))]_vars

\* C11 for the windows in which no attribute is named __proto__.
C11_FirstAttributeWinsOwnNames ==
    [][(WindowSeen /\ \A i \in 1..Len(Window(events)) :
                          Window(events)[i].name # "__proto__")
       => out'[1] = OpenCall(last'.name, FirstValues(Window(events)))]_vars

\* The fragments fed in since the last onattribend or reset(), concatenated
\* in their order.
RECURSIVE ValueFed(_)
ValueFed(calls) ==
    IF calls = <<>> \/ calls[Len(calls)].kind # "attribdata" THEN ""
    ELSE ValueFed(SubSeq(calls, 1, Len(calls) - 1)) \o calls[Len(calls)].name

\* C17: the value delivered with an attribute event is the concatenation, in
\* their order, of the fragments received since the later of the attribute
\* end before it and the last construction or reset().
C17_ValueIsFragmentsSinceReset ==
    [][(last'.kind = "attribend" /\ "onattribute" \in cbs)
       => /\ Len(out') = 1
          /\ out'[1].cb = "onattribute"
          /\ out'[1].value = ValueFed(input)]_vars

----------------------------------------------------------------------------
(* Claims checked under SpecHandlers. *)

\* C12: every Handler method is optional.  A Parser with any subset of the
\* methods registered, fed the calls that a Parser with all of them was fed,
\* has after each call the open-element stack and the foreign-context stack
\* of that Parser, and its Handler has received the calls that Parser's
\* Handler had received by then, less those of the methods not registered.
C12_HandlersOptional ==
    (prevInput # <<>> /\ input # <<>>)
    => LET then == trace[Len(input)]
       IN /\ stack = then.stack
          /\ foreignContext = then.foreignContext
          /\ events = Delivered(SubSeq(prevEvents, 1, then.delivered))

\* C12's case: <p></p> fed to a Parser whose Handler has no onclosetag: the
\* Handler has received two calls, the other Handler three, and both stacks
\* are empty again.
C12_Witness ==
    /\ cbs = HandlerMethods \ {"onclosetag"}
    /\ input = prevInput
    /\ last = [kind |-> "closetag", name |-> "p"]
    /\ stack = <<>>
    /\ Len(events) = 2
    /\ Len(prevEvents) = 3

\* C13: for any input ended by end-of-input, with the open-tag-name and
\* close-tag handlers registered, every close event names the element opened
\* last and not yet closed, and every element that had an open-tag-name
\* event has had its close event once onend is delivered.
C13_EveryElementClosedOnce ==
    /\ {"onopentagname", "onclosetag"} \subseteq cbs => Nesting(events).nested
    /\ (Ended /\ {"onopentagname", "onclosetag"} \subseteq cbs)
       => Nesting(events).open = <<>>

----------------------------------------------------------------------------
(* Claims checked under SpecPos. *)

\* The calls that recompute the position.
Recomputing ==
    {"opentagend", "selfclosingtag", "closetag", "text", "comment", "cdata"}

\* No call of the session so far has recomputed the position.
FirstOfSession == \A i \in 1..Len(input) : input[i].kind \notin Recomputing

\* The fields after the call `call` is processed from the fields `s`.
Processed(s, call) ==
    CASE call.kind = "opentagend" -> onopentagend(s)
      [] call.kind = "selfclosingtag" -> onselfclosingtag(s)
      [] call.kind = "closetag" -> onclosetag(s, call.name)
      [] call.kind = "text" -> ontext(s, call.name)
      [] call.kind = "comment" -> oncomment(s, call.name)
      [] call.kind = "cdata" -> oncdata(s, call.name)

\* The fields with the position as the constructor leaves it (208-210).
PositionAnew == [This EXCEPT !.startIndex = 0, !.endIndex = <<>>]

\* C18: the first call of a session that recomputes the position gives its
\* Handler calls the startIndex and endIndex that it gives them as the first
\* such call after construction, computed from the Tokenizer's section
\* start and cursor alone, whether the session began with the constructor
\* or with reset().
C18_PositionStartsOverAfterReset ==
    [][(last'.kind \in Recomputing /\ FirstOfSession)
       => spans' = Processed(PositionAnew, last').spans]_vars

\* The Handler methods called for text, open tags, close tags, comments and
\* CDATA sections.
Positioned ==
    {"ontext", "onopentag", "onclosetag", "oncomment", "oncommentend",
     "oncdatastart", "oncdataend"}

\* C19: at every Handler call for text, an open tag, a close tag, a comment
\* or a CDATA section that follows a recomputation of the position,
\* startIndex <= endIndex.
C19_SpansWellFormed ==
    \A i \in 1..Len(out) :
        (out[i].cb \in Positioned /\ spans[i].endIndex # <<>>)
        => spans[i].startIndex <= spans[i].endIndex[1]

====
